---- MODULE Spec2Model ----
(***************************************************************************)
(* A model of the Checkit Framer plugin (src/src/App.tsx): the link        *)
(* collector and validator, the style audit, the node-name audit, the      *)
(* width audit, and the React component that runs them behind a loading    *)
(* flag.                                                                   *)
(*                                                                         *)
(* Strings are sequences of one-character strings, so that startsWith,     *)
(* includes, substring and the two regular expressions are computed on     *)
(* characters.  A JavaScript Set or Map is a sequence without duplicates   *)
(* in insertion order, which is the order Array.from and entries() give.   *)
(* A step of a handler is what runs between two macrotasks: from a click   *)
(* or a host/network answer up to the next host or network call.           *)
(***************************************************************************)
EXTENDS Integers, Sequences, FiniteSets, TLC

VARIABLES
    doc,          \* the host's document: children, nodes, textStyles, colorStyles
    selection,    \* useSelection(): the roots the user selected
    bg,           \* backgroundColor of each node, written by setAttributes
    loading,      \* useState(false)
    results,      \* useState([]): link validation results
    links,        \* useState([]): links found
    styleErrors,  \* useState([])
    namingErrors, \* useState([])
    widthErrors,  \* useState({inconsistencies, noMaxWidth, invalidWidths})
    pc,           \* the host or network call the running handler awaits, or "idle"
    stack,        \* nodes still to visit, the awaited one first
    acc,          \* links (getLinksFromSelection) or errors (checkNodeNames) so far
    validations,  \* the promises of foundLinks.map(validateLink)
    errors,       \* checkWidths: the three Sets
    widthTypes,   \* checkWidths: Map width -> nodes
    hostCalls,    \* the getChildren calls of the latest walk, by caller
    fetched,      \* the urls handed to fetch so far
    inflight,     \* handler invocations started and not yet settled
    unhandled     \* handler invocations that ended in a rejection

vars == <<doc, selection, bg, loading, results, links, styleErrors, namingErrors,
          widthErrors, pc, stack, acc, validations, errors, widthTypes,
          hostCalls, fetched, inflight, unhandled>>

(***************************************************************************)
(* Bounds of the model.                                                    *)
(***************************************************************************)
MaxLen == 3
MaxNodes == 2
MaxFrames == 3

(***************************************************************************)
(* Strings.                                                                *)
(***************************************************************************)
Range(s) == {s[i] : i \in DOMAIN s}

RECURSIVE SeqsUpTo(_, _)
SeqsUpTo(S, n) ==
    IF n = 0 THEN {<<>>}
    ELSE LET shorter == SeqsUpTo(S, n - 1)
         IN  shorter \cup {Append(s, c) : s \in {t \in shorter : Len(t) = n - 1}, c \in S}

MAILTO == <<"m", "a", "i", "l", "t", "o", ":">>
TEL == <<"t", "e", "l", ":">>
HTTPS == <<"h", "t", "t", "p", "s", ":", "/", "/">>
DESKTOP == <<"D", "e", "s", "k", "t", "o", "p">>
FR == <<"1", "f", "r">>
FIT_CONTENT == <<"f", "i", "t", "-", "c", "o", "n", "t", "e", "n", "t">>
ZERO_PX == <<"0", "p", "x">>

Digits == {"0", "1", "2", "3", "4", "5", "6", "7", "8", "9"}
Spaces == {" ", "\t", "\n", "\r"}

\* String.prototype.startsWith
startsWith(s, p) == Len(s) >= Len(p) /\ SubSeq(s, 1, Len(p)) = p

\* String.prototype.includes, for a one-character needle
includes(s, c) == c \in Range(s)

\* String.prototype.substring(n)
substring(s, n) == SubSeq(s, n + 1, Len(s))

\* /^\+?\d[\d\s]*$/.test(s)
RECURSIVE DigitsOrSpaces(_)
DigitsOrSpaces(s) ==
    s = <<>> \/ (Head(s) \in Digits \cup Spaces /\ DigitsOrSpaces(Tail(s)))

TelPattern(s) ==
    LET r == IF s # <<>> /\ Head(s) = "+" THEN Tail(s) ELSE s
    IN  r # <<>> /\ Head(r) \in Digits /\ DigitsOrSpaces(Tail(r))

\* /^\+?\d+$/.test(s)
RECURSIVE AllDigits(_)
AllDigits(s) == s = <<>> \/ (Head(s) \in Digits /\ AllDigits(Tail(s)))

BarePhonePattern(s) ==
    LET r == IF s # <<>> /\ Head(s) = "+" THEN Tail(s) ELSE s
    IN  r # <<>> /\ AllDigits(r)

(***************************************************************************)
(* validateLink.                                                           *)
(***************************************************************************)
NoMessage == "undefined"
EmailMessage == "Email link should start with \"mailto:\""
PhoneMessage == "Phone number link should start with \"tel:\""

Result(url, status, valid, message) ==
    [url |-> url, status |-> status, valid |-> valid, message |-> message]

\* The part of validateLink before fetch: the result it returns, or the
\* request to probe.
NeedsFetch == [fetch |-> TRUE]

validateLinkTelBeforeEmail(url) ==
    IF startsWith(url, MAILTO)
    THEN Result(url, 0, includes(substring(url, 7), "@") /\ includes(substring(url, 7), "."),
                NoMessage)
    ELSE IF startsWith(url, TEL)
    THEN Result(url, 0, TelPattern(substring(url, 4)), NoMessage)
    ELSE IF includes(url, "@") /\ includes(url, ".")
    THEN Result(url, 0, FALSE, EmailMessage)
    ELSE IF BarePhonePattern(url)
    THEN Result(url, 0, FALSE, PhoneMessage)
    ELSE IF includes(url, "+") /\ includes(url, ".")
    THEN Result(url, 0, FALSE, NoMessage)
    ELSE NeedsFetch

validateLink(url) ==
    IF startsWith(url, MAILTO)
    THEN LET email == substring(url, 7)
         IN  IF ~includes(email, "@") \/ ~includes(email, ".")
             THEN Result(url, 0, FALSE, NoMessage)
             ELSE Result(url, 0, TRUE, NoMessage)
    ELSE IF includes(url, "@") /\ includes(url, ".")
    THEN Result(url, 0, FALSE, EmailMessage)
    ELSE IF startsWith(url, TEL)
    THEN LET phoneNumber == substring(url, 4)
         IN  IF ~TelPattern(phoneNumber)
             THEN Result(url, 0, FALSE, NoMessage)
             ELSE Result(url, 0, TRUE, NoMessage)
    ELSE IF BarePhonePattern(url)
    THEN Result(url, 0, FALSE, PhoneMessage)
    ELSE IF includes(url, "+") /\ includes(url, ".")
    THEN Result(url, 0, FALSE, NoMessage)
    ELSE NeedsFetch

\* The status codes a response may carry
ProbeStatuses == {200, 404}

\* The promise of validateLink(url): pending on fetch, fulfilled with a
\* result, or rejected.  probe records what the network did for it.
Promise(url, state, value, probe) ==
    [url |-> url, state |-> state, value |-> value, probe |-> probe]

NoProbe == [kind |-> "none", status |-> 0]
ProbePending == [kind |-> "pending", status |-> 0]
ProbeResponse(status) == [kind |-> "response", status |-> status]
ProbeFailure == [kind |-> "failure", status |-> 0]
Undefined == [undefined |-> TRUE]

\* The call validateLink(url), up to its first suspension (await fetch)
validateLinkCall(url) ==
    IF validateLink(url) = NeedsFetch
    THEN Promise(url, "pending", Undefined, ProbePending)
    ELSE Promise(url, "fulfilled", validateLink(url), NoProbe)

\* return { url, status: response.status, valid: true }
fetchResolved(url, status) ==
    Promise(url, "fulfilled", Result(url, status, TRUE, NoMessage), ProbeResponse(status))

\* the same without the catch clause
fetchRejectedUncaught(url) == Promise(url, "rejected", Undefined, ProbeFailure)

\* catch (err) { return { url, status: 0, valid: false } }
fetchRejected(url) ==
    Promise(url, "fulfilled", Result(url, 0, FALSE, NoMessage), ProbeFailure)

(***************************************************************************)
(* The document the host owns.  Node n has the identifier "n<n>"; a node   *)
(* record carries what the plugin reads: name, __class, link, controls (a  *)
(* sequence of entries in key order), width, maxWidth, text.style, color.  *)
(* An absent (undefined) string attribute is the empty string: both are    *)
(* falsy.                                                                  *)
(***************************************************************************)
DigitChar == <<"1", "2", "3", "4", "5", "6", "7", "8", "9">>
IdOf(n) == <<"n", DigitChar[n]>>

Entry(key, type, val) == [key |-> key, type |-> type, val |-> val]

Node(name, class, link, controls, width, maxWidth, textStyle, color) ==
    [name |-> name, class |-> class, link |-> link, controls |-> controls,
     width |-> width, maxWidth |-> maxWidth, textStyle |-> textStyle, color |-> color]

PlainNode == Node(<<"A">>, "FrameNode", <<>>, <<>>, FR, <<"9">>, <<>>, <<>>)

Doc(children, nodes, textStyles, colorStyles) ==
    [children |-> children, nodes |-> nodes,
     textStyles |-> textStyles, colorStyles |-> colorStyles]

NodesOf(d) == DOMAIN d.nodes

\* JavaScript truthiness of a control value
Truthy(e) == IF e.type = "string" THEN e.val # <<>> ELSE e.val # 0

(***************************************************************************)
(* getAllLinks and getLinksFromSelection.                                  *)
(***************************************************************************)
\* if (node.link) links.push(node.link)
NodeLink(node) == IF node.link # <<>> THEN <<node.link>> ELSE <<>>

\* if (node.controls?.link) links.push(node.controls.link)
RECURSIVE ControlsLink(_)
ControlsLink(controls) ==
    IF controls = <<>> THEN <<>>
    ELSE IF Head(controls).key = "link"
    THEN IF Truthy(Head(controls)) THEN <<Head(controls).val>> ELSE <<>>
    ELSE ControlsLink(Tail(controls))

\* for (const key in node.controls) ... links.push(value)
RECURSIVE ControlsScan(_)
ControlsScan(controls) ==
    IF controls = <<>> THEN <<>>
    ELSE LET e == Head(controls)
             hit == /\ e.type = "string"
                    /\ \/ startsWith(e.val, <<"/">>)
                       \/ startsWith(e.val, TEL)
                       \/ startsWith(e.val, MAILTO)
         IN  (IF hit THEN <<e.val>> ELSE <<>>) \o ControlsScan(Tail(controls))

\* Whether getAllLinks returns at line 28, before node.getChildren()
SkipsChildrenNever(node) == FALSE

SkipsChildren(node) == node.class = "ComponentInstanceNode"

\* The links getAllLinks pushes for the node itself (lines 9-27)
OwnLinks(node) ==
    NodeLink(node) \o ControlsLink(node.controls)
        \o (IF node.class = "ComponentInstanceNode"
            THEN ControlsScan(node.controls) ELSE <<>>)

\* getLinksFromSelection up to its next node.getChildren() call: the nodes
\* at the head of the work list that return without one are passed over.
\* work is the rest of the pre-order walk, links what was pushed so far.
RECURSIVE Advance(_, _, _)
Advance(d, work, found) ==
    IF work = <<>> THEN [stack |-> <<>>, acc |-> found]
    ELSE LET node == d.nodes[Head(work)]
         IN  IF SkipsChildren(node)
             THEN Advance(d, Tail(work), found \o OwnLinks(node))
             ELSE [stack |-> work, acc |-> found \o OwnLinks(node)]

(***************************************************************************)
(* The component's state and its handlers.                                 *)
(***************************************************************************)
NoWidthErrors == [inconsistencies |-> <<>>, noMaxWidth |-> <<>>, invalidWidths |-> <<>>]

InitWith(d, sel) ==
    /\ doc = d
    /\ selection = sel
    /\ bg = [n \in NodesOf(d) |-> "none"]
    /\ loading = FALSE
    /\ results = <<>>
    /\ links = <<>>
    /\ styleErrors = <<>>
    /\ namingErrors = <<>>
    /\ widthErrors = NoWidthErrors
    /\ pc = "idle"
    /\ stack = <<>>
    /\ acc = <<>>
    /\ validations = <<>>
    /\ errors = NoWidthErrors
    /\ widthTypes = <<>>
    /\ hostCalls = {}
    /\ fetched = {}
    /\ inflight = 0
    /\ unhandled = "none"

\* disabled={loading}: a button takes a click only while loading is false
ButtonEnabledAlways == TRUE

ButtonEnabled == ~loading

\* Promise.all settles: rejected with the first rejection, fulfilled when
\* every promise is fulfilled
AnyFulfilled(vals) == \E i \in DOMAIN vals : vals[i].state = "fulfilled"

AllFulfilled(vals) == \A i \in DOMAIN vals : vals[i].state = "fulfilled"

AnyRejected(vals) == \E i \in DOMAIN vals : vals[i].state = "rejected"

\* The rest of handleValidateLinks once Promise.all(validations) is awaited
\* with the promises vals; n is the number of invocations in flight.
AwaitAll(vals, n) ==
    /\ validations' = vals
    /\ IF AnyRejected(vals)
       THEN /\ pc' = "idle"
            /\ inflight' = n - 1
            /\ unhandled' = "fetch"
            /\ UNCHANGED <<results, loading>>
       ELSE IF AllFulfilled(vals)
       THEN /\ results' = [i \in DOMAIN vals |-> vals[i].value]
            /\ loading' = FALSE
            /\ pc' = "idle"
            /\ inflight' = n - 1
            /\ UNCHANGED unhandled
       ELSE /\ pc' = "fetch"
            /\ inflight' = n
            /\ loading' = TRUE
            /\ UNCHANGED <<results, unhandled>>

\* handleValidateLinks from a state a of the walk (Advance) on: either the
\* next getChildren call, or setLinks and the fan-out over foundLinks
LinksContinue(a, n, calls) ==
    IF a.stack # <<>>
    THEN /\ pc' = "getAllLinks"
         /\ stack' = a.stack
         /\ acc' = a.acc
         /\ hostCalls' = calls \cup {<<"getAllLinks", Head(a.stack)>>}
         /\ loading' = TRUE
         /\ inflight' = n
         /\ UNCHANGED <<links, results, validations, fetched, unhandled>>
    ELSE LET vals == [i \in DOMAIN a.acc |-> validateLinkCall(a.acc[i])]
         IN  /\ stack' = <<>>
             /\ acc' = <<>>
             /\ links' = a.acc
             /\ fetched' = fetched \cup
                    {a.acc[i] : i \in {j \in DOMAIN vals : vals[j].probe.kind = "pending"}}
             /\ AwaitAll(vals, n)
             /\ hostCalls' = calls

ClickValidateLinks ==
    /\ ButtonEnabled
    /\ LinksContinue(Advance(doc, selection, <<>>), inflight + 1, {})
    /\ UNCHANGED <<doc, selection, bg, styleErrors, namingErrors, widthErrors,
                   errors, widthTypes>>

\* node.getChildren() answers in getAllLinks
GetAllLinksChildren ==
    /\ pc = "getAllLinks"
    /\ LinksContinue(Advance(doc, doc.children[Head(stack)] \o Tail(stack), acc), inflight,
                     hostCalls)
    /\ UNCHANGED <<doc, selection, bg, styleErrors, namingErrors, widthErrors,
                   errors, widthTypes>>

\* fetch answers for the i-th link
FetchResponds ==
    \E i \in DOMAIN validations, status \in ProbeStatuses :
        /\ pc = "fetch"
        /\ validations[i].state = "pending"
        /\ AwaitAll([validations EXCEPT ![i] = fetchResolved(validations[i].url, status)], inflight)
        /\ UNCHANGED <<doc, selection, bg, links, styleErrors, namingErrors, widthErrors,
                       stack, acc, errors, widthTypes, hostCalls, fetched>>

\* fetch fails for the i-th link
FetchFails ==
    \E i \in DOMAIN validations :
        /\ pc = "fetch"
        /\ validations[i].state = "pending"
        /\ AwaitAll([validations EXCEPT ![i] = fetchRejected(validations[i].url)], inflight)
        /\ UNCHANGED <<doc, selection, bg, links, styleErrors, namingErrors, widthErrors,
                       stack, acc, errors, widthTypes, hostCalls, fetched>>

\* A host call of the running handler rejects: nothing catches it, the
\* handler's promise rejects and its setLoading(false) never runs
HostRejects ==
    /\ pc \in {"getAllLinks", "processNode", "getNodesWithType",
               "getTextStyles", "getColorStyles"}
    /\ unhandled' = pc
    /\ pc' = "idle"
    /\ inflight' = inflight - 1
    /\ stack' = <<>>
    /\ acc' = <<>>
    /\ errors' = NoWidthErrors
    /\ widthTypes' = <<>>
    /\ UNCHANGED <<doc, selection, bg, loading, results, links, styleErrors,
                   namingErrors, widthErrors, validations, hostCalls, fetched>>

(***************************************************************************)
(* checkWidths.                                                            *)
(***************************************************************************)
\* Set.prototype.add
SetAdd(set, x) == IF x \in Range(set) THEN set ELSE Append(set, x)

\* `"${frameNode.name}" (ID: ${frameNode.id})`
Descriptor(name, id) ==
    <<"\"">> \o name \o <<"\"", " ", "(", "I", "D", ":", " ">> \o id \o <<")">>

Summary == <<"Detected mixed REL (1fr) and FILL (fit-content) widths in the template.">>

\* node.getNodesWithType("FrameNode"): the frames below the node, in
\* document order
RECURSIVE FramesBelow(_, _), FramesOfAll(_, _)
FramesOfAll(d, ns) ==
    IF ns = <<>> THEN <<>>
    ELSE (IF d.nodes[Head(ns)].class = "FrameNode" THEN <<Head(ns)>> ELSE <<>>)
            \o FramesBelow(d, Head(ns)) \o FramesOfAll(d, Tail(ns))
FramesBelow(d, n) == FramesOfAll(d, d.children[n])

\* frameNode.name !== "Desktop"
IsAuditedAlways(node) == TRUE

IsAudited(node) == node.name # DESKTOP

\* the else of: width !== "1fr" && width !== "fit-content"
IsBucketedAlways(node) == TRUE

IsBucketed(node) == ~(node.width # FR /\ node.width # FIT_CONTENT)

\* if (!widthTypes.has(width)) widthTypes.set(width, []);
\* widthTypes.get(width)?.push(frameNode)
RECURSIVE MapPush(_, _, _)
MapPush(map, key, n) ==
    IF map = <<>> THEN <<[key |-> key, nodes |-> <<n>>]>>
    ELSE IF Head(map).key = key
    THEN <<[key |-> key, nodes |-> Append(Head(map).nodes, n)]>> \o Tail(map)
    ELSE <<Head(map)>> \o MapPush(Tail(map), key, n)

\* A loop body that passes over the frames an earlier run has painted
AuditFrameSkippingMarked(d, n, st) ==
    LET node == d.nodes[n]
        desc == Descriptor(node.name, IdOf(n))
        st1 == IF ~IsBucketed(node)
               THEN [st EXCEPT !.errors.invalidWidths = SetAdd(@, desc),
                               !.bg[n] = "#FFCCCC"]
               ELSE [st EXCEPT !.widthTypes = MapPush(@, node.width, n)]
        st2 == IF node.maxWidth = <<>>
               THEN [st1 EXCEPT !.errors.noMaxWidth = SetAdd(@, desc),
                                !.bg[n] = "#FFE4E4"]
               ELSE st1
    IN  IF IsAudited(node) /\ bg[n] = "none" THEN st2 ELSE st

\* The body of the loop over frameNodes for frame n (lines 253-272);
\* st holds errors, widthTypes and the nodes' backgroundColor
AuditFrame(d, n, st) ==
    LET node == d.nodes[n]
        desc == Descriptor(node.name, IdOf(n))
        st1 == IF ~IsBucketed(node)
               THEN [st EXCEPT !.errors.invalidWidths = SetAdd(@, desc),
                               !.bg[n] = "#FFCCCC"]
               ELSE [st EXCEPT !.widthTypes = MapPush(@, node.width, n)]
        st2 == IF node.maxWidth = <<>>
               THEN [st1 EXCEPT !.errors.noMaxWidth = SetAdd(@, desc),
                                !.bg[n] = "#FFE4E4"]
               ELSE st1
    IN  IF IsAudited(node) THEN st2 ELSE st

RECURSIVE AuditFrames(_, _, _)
AuditFrames(d, frames, st) ==
    IF frames = <<>> THEN st
    ELSE AuditFrames(d, Tail(frames), AuditFrame(d, Head(frames), st))

\* widthTypes.size > 1
MixedNever(map) == FALSE

Mixed(map) == Len(map) > 1

\* for (const [widthType, nodes] of widthTypes.entries())
\*   for (const node of nodes) errors.inconsistencies.add(...)
RECURSIVE AddAll(_, _, _)
AddAll(d, set, ns) ==
    IF ns = <<>> THEN set
    ELSE AddAll(d, SetAdd(set, Descriptor(d.nodes[Head(ns)].name, IdOf(Head(ns)))), Tail(ns))

RECURSIVE AddBuckets(_, _, _)
AddBuckets(d, set, map) ==
    IF map = <<>> THEN set
    ELSE AddBuckets(d, AddAll(d, set, Head(map).nodes), Tail(map))

\* lines 276-293: the report checkWidths returns
WidthReport(d, errs, map) ==
    [inconsistencies |-> IF Mixed(map) THEN AddBuckets(d, <<Summary>>, map) ELSE <<>>,
     noMaxWidth |-> errs.noMaxWidth,
     invalidWidths |-> errs.invalidWidths]

\* handleCheckWidths from the loop over selection on: roots are the nodes
\* still to ask for their frames
WidthsContinue(roots, st, n) ==
    /\ bg' = st.bg
    /\ stack' = roots
    /\ IF roots # <<>>
       THEN /\ pc' = "getNodesWithType"
            /\ errors' = st.errors
            /\ widthTypes' = st.widthTypes
            /\ loading' = TRUE
            /\ inflight' = n
            /\ UNCHANGED widthErrors
       ELSE /\ pc' = "idle"
            /\ errors' = NoWidthErrors
            /\ widthTypes' = <<>>
            /\ widthErrors' = WidthReport(doc, st.errors, st.widthTypes)
            /\ loading' = FALSE
            /\ inflight' = n - 1

ClickCheckWidths ==
    /\ ButtonEnabled
    /\ WidthsContinue(selection,
                      [errors |-> NoWidthErrors, widthTypes |-> <<>>, bg |-> bg],
                      inflight + 1)
    /\ UNCHANGED <<doc, selection, results, links, styleErrors, namingErrors, acc,
                   validations, hostCalls, fetched, unhandled>>

\* node.getNodesWithType("FrameNode") answers
GetNodesWithTypeAnswers ==
    /\ pc = "getNodesWithType"
    /\ WidthsContinue(Tail(stack),
                      AuditFrames(doc, FramesBelow(doc, Head(stack)),
                                  [errors |-> errors, widthTypes |-> widthTypes, bg |-> bg]),
                      inflight)
    /\ UNCHANGED <<doc, selection, results, links, styleErrors, namingErrors, acc,
                   validations, hostCalls, fetched, unhandled>>

(***************************************************************************)
(* checkNodeNames.                                                         *)
(***************************************************************************)
genericNames ==
    {<<"S", "t", "a", "c", "k">>,
     <<"F", "r", "a", "m", "e">>,
     <<"R", "e", "c", "t", "a", "n", "g", "l", "e">>,
     <<"G", "r", "o", "u", "p">>,
     <<"C", "o", "m", "p", "o", "n", "e", "n", "t">>}

GenericNameMessage(name, id) ==
    <<"Node \"">> \o name \o <<"\" (ID: ">> \o id
        \o <<") has a generic name. Consider renaming it to something more descriptive.">>

\* processNode up to its node.getChildren() call (lines 214-226), for the
\* first node of work; st holds the errors and the nodes' backgroundColor
VisitNode(d, work, st) ==
    IF work = <<>> THEN st
    ELSE LET n == Head(work)
         IN  IF d.nodes[n].name \in genericNames
             THEN [errors |-> Append(st.errors, GenericNameMessage(d.nodes[n].name, IdOf(n))),
                   bg |-> [st.bg EXCEPT ![n] = "#FFD700"]]
             ELSE st

\* handleCheckNodeNames from the visit of the first node of work on
NamesContinue(work, st, n, calls) ==
    /\ stack' = work
    /\ bg' = VisitNode(doc, work, st).bg
    /\ IF work # <<>>
       THEN /\ pc' = "processNode"
            /\ acc' = VisitNode(doc, work, st).errors
            /\ hostCalls' = calls \cup {<<"processNode", Head(work)>>}
            /\ loading' = TRUE
            /\ inflight' = n
            /\ UNCHANGED namingErrors
       ELSE /\ pc' = "idle"
            /\ acc' = <<>>
            /\ namingErrors' = st.errors
            /\ loading' = FALSE
            /\ inflight' = n - 1
            /\ hostCalls' = calls

ClickCheckNodeNames ==
    /\ ButtonEnabled
    /\ NamesContinue(selection, [errors |-> <<>>, bg |-> bg], inflight + 1, {})
    /\ UNCHANGED <<doc, selection, results, links, styleErrors, widthErrors,
                   validations, errors, widthTypes, fetched, unhandled>>

\* node.getChildren() answers in processNode
ProcessNodeChildren ==
    /\ pc = "processNode"
    /\ NamesContinue(doc.children[Head(stack)] \o Tail(stack),
                     [errors |-> acc, bg |-> bg], inflight, hostCalls)
    /\ UNCHANGED <<doc, selection, results, links, styleErrors, widthErrors,
                   validations, errors, widthTypes, fetched, unhandled>>

(***************************************************************************)
(* checkStyles.  A text style is [id, name, tag, font, color, fontSize], a *)
(* color style [id, name, light, dark].                                    *)
(***************************************************************************)
RECURSIVE TextStyleErrors(_)
TextStyleErrors(styles) ==
    IF styles = <<>> THEN <<>>
    ELSE LET style == Head(styles)
             with == <<"Text style with tag ">> \o style.tag
         IN  (IF style.name = <<>> THEN <<with \o <<" is missing a name.">>>> ELSE <<>>)
             \o (IF style.font = <<>> THEN <<with \o <<" is missing a font.">>>> ELSE <<>>)
             \o (IF style.color = <<>> THEN <<with \o <<" is missing a color.">>>> ELSE <<>>)
             \o (IF style.fontSize = ZERO_PX
                 THEN <<with \o <<" has an invalid font size of 0px.">>>> ELSE <<>>)
             \o TextStyleErrors(Tail(styles))

RECURSIVE ColorStyleErrors(_)
ColorStyleErrors(styles) ==
    IF styles = <<>> THEN <<>>
    ELSE LET style == Head(styles)
         IN  (IF style.name = <<>>
              THEN <<<<"Color style \"">> \o style.name \o <<"\" is missing a name.">>>>
              ELSE <<>>)
             \o (IF style.light = <<>>
                 THEN <<<<"Color style with \"">> \o style.name
                            \o <<"\" is missing a light color value.">>>>
                 ELSE <<>>)
             \o (IF style.dark = <<>>
                 THEN <<<<"Color style with \"">> \o style.name
                            \o <<"\" is missing a dark color value.">>>>
                 ELSE <<>>)
             \o ColorStyleErrors(Tail(styles))

\* styles.find((style) => style.id === id)
Finds(styles, id) == \E k \in DOMAIN styles : styles[k].id = id

\* selection.forEach(...) of lines 160-167: what it pushes to errors
RECURSIVE UsageErrors(_, _)
UsageErrors(d, sel) ==
    IF sel = <<>> THEN <<>>
    ELSE LET node == d.nodes[Head(sel)]
             with == <<"Node with ID ">> \o IdOf(Head(sel))
         IN  (IF node.textStyle # <<>> /\ ~Finds(d.textStyles, node.textStyle)
              THEN <<with \o <<" is using a non-existent text style.">>>> ELSE <<>>)
             \o (IF node.color # <<>> /\ ~Finds(d.colorStyles, node.color)
                 THEN <<with \o <<" is using a non-existent color style.">>>> ELSE <<>>)
             \o UsageErrors(d, Tail(sel))

\* What checkStyles returns: categorizedErrors, which takes textStyleErrors
\* and colorStyleErrors (lines 170-185); the array errors of the usage pass (unreturned) is
\* filled and left behind
checkStyles(d, sel) ==
    LET unreturned == UsageErrors(d, sel)
        textStyleErrors == TextStyleErrors(d.textStyles)
        colorStyleErrors == ColorStyleErrors(d.colorStyles)
    IN  textStyleErrors \o colorStyleErrors

ClickCheckStyles ==
    /\ ButtonEnabled
    /\ loading' = TRUE
    /\ inflight' = inflight + 1
    /\ pc' = "getTextStyles"
    /\ stack' = selection
    /\ UNCHANGED <<doc, selection, bg, results, links, styleErrors, namingErrors,
                   widthErrors, acc, validations, errors, widthTypes, hostCalls,
                   fetched, unhandled>>

\* framer.getTextStyles() answers
GetTextStylesAnswers ==
    /\ pc = "getTextStyles"
    /\ pc' = "getColorStyles"
    /\ UNCHANGED <<doc, selection, bg, loading, results, links, styleErrors,
                   namingErrors, widthErrors, stack, acc, validations, errors,
                   widthTypes, hostCalls, fetched, inflight, unhandled>>

\* framer.getColorStyles() answers: the rest of checkStyles, setStyleErrors
\* and setLoading(false)
GetColorStylesAnswers ==
    /\ pc = "getColorStyles"
    /\ styleErrors' = checkStyles(doc, stack)
    /\ stack' = <<>>
    /\ loading' = FALSE
    /\ pc' = "idle"
    /\ inflight' = inflight - 1
    /\ UNCHANGED <<doc, selection, bg, results, links, namingErrors, widthErrors,
                   acc, validations, errors, widthTypes, hostCalls, fetched, unhandled>>

(***************************************************************************)
(* handleClear and the selection subscription.                             *)
(***************************************************************************)
ClickClear ==
    /\ ButtonEnabled
    /\ results' = <<>>
    /\ links' = <<>>
    /\ styleErrors' = <<>>
    /\ widthErrors' = NoWidthErrors
    /\ namingErrors' = <<>>
    /\ UNCHANGED <<doc, selection, bg, loading, pc, stack, acc, validations, errors,
                   widthTypes, hostCalls, fetched, inflight, unhandled>>

\* framer.subscribeToSelection(setSelection): the user selects other nodes.
\* A running handler keeps the selection it was started with.
Selections(d) == {sel \in SeqsUpTo(NodesOf(d), 2) : \A a, b \in DOMAIN sel : a < b => sel[a] < sel[b]}

SelectionChanges ==
    /\ \E sel \in Selections(doc) : sel # selection /\ selection' = sel
    /\ UNCHANGED <<doc, bg, loading, results, links, styleErrors, namingErrors,
                   widthErrors, pc, stack, acc, validations, errors, widthTypes,
                   hostCalls, fetched, inflight, unhandled>>

(***************************************************************************)
(* The link validator on every link of the bounded alphabet: one node      *)
(* carries the link.                                                       *)
(***************************************************************************)
LinkAlphabet == {"@", ".", "+", "1", " ", "a"}
LinkPrefixes == {<<>>, MAILTO, TEL, HTTPS}
BoundedLinks == {p \o b : p \in LinkPrefixes, b \in SeqsUpTo(LinkAlphabet, MaxLen)}

LinkDoc(url) ==
    Doc([n \in {1} |-> <<>>],
        [n \in {1} |-> [PlainNode EXCEPT !.link = url]],
        <<>>, <<>>)

InitValidate == \E url \in BoundedLinks : InitWith(LinkDoc(url), <<1>>)

NextValidate ==
    \/ ClickValidateLinks
    \/ GetAllLinksChildren
    \/ FetchResponds
    \/ FetchFails
    \/ HostRejects

SpecValidate == InitValidate /\ [][NextValidate]_vars

(***************************************************************************)
(* The link collector on every forest of MaxNodes nodes: each node after   *)
(* the first hangs under an earlier node or is a further root of the       *)
(* selection; each is a frame or a component instance, with or without a   *)
(* link and a control bag.                                                 *)
(***************************************************************************)
PATH_A == <<"/", "a">>
TEL_1 == TEL \o <<"1">>

ControlBag ==
    <<Entry("title", "string", <<"x">>),
      Entry("columns", "number", 5),
      Entry("link", "string", TEL_1),
      Entry("cta", "string", MAILTO \o <<"a">>)>>

RECURSIVE Ascending(_)
Ascending(S) ==
    IF S = {} THEN <<>>
    ELSE LET least == CHOOSE x \in S : \A y \in S : x <= y
         IN  <<least>> \o Ascending(S \ {least})

ParentMaps(n) == {par \in [1..n -> 0..(n - 1)] : \A k \in 1..n : par[k] < k}

ChildrenOf(par) ==
    [k \in DOMAIN par |-> Ascending({m \in DOMAIN par : par[m] = k})]

RootsOf(par) == Ascending({m \in DOMAIN par : par[m] = 0})

LinkNodes ==
    {[PlainNode EXCEPT !.class = c, !.link = l, !.controls = b] :
        c \in {"FrameNode", "ComponentInstanceNode"},
        l \in {<<>>, PATH_A},
        b \in {<<>>, ControlBag}}

InitCollect ==
    \E par \in ParentMaps(MaxNodes), nodes \in [1..MaxNodes -> LinkNodes] :
        InitWith(Doc(ChildrenOf(par), nodes, <<>>, <<>>), RootsOf(par))

SpecCollect == InitCollect /\ [][NextValidate]_vars

(***************************************************************************)
(* The width audit on every choice of name, width and maxWidth for         *)
(* MaxFrames frames: node 1 is selected, frame 2 lies in it and the other  *)
(* frames lie in frame 2; frame 2 may be selected too, and then the frames *)
(* in it are audited twice.                                                *)
(***************************************************************************)
PX == <<"9", "p", "x">>

FrameNodes ==
    {[PlainNode EXCEPT !.name = nm, !.width = w, !.maxWidth = mw] :
        nm \in {DESKTOP, <<"A">>},
        w \in {FR, FIT_CONTENT, PX},
        mw \in {<<>>, PX}}

NestedParents(n) == [k \in 1..n |-> IF k = 1 THEN 0 ELSE IF k = 2 THEN 1 ELSE 2]

InitWidths ==
    \E frames \in [2..(MaxFrames + 1) -> FrameNodes], sel \in {<<1>>, <<1, 2>>} :
        InitWith(Doc(ChildrenOf(NestedParents(MaxFrames + 1)),
                     [k \in 1..(MaxFrames + 1) |-> IF k = 1 THEN PlainNode ELSE frames[k]],
                     <<>>, <<>>),
                 sel)

NextWidths ==
    \/ ClickCheckWidths
    \/ GetNodesWithTypeAnswers
    \/ HostRejects

SpecWidths == InitWidths /\ [][NextWidths]_vars

(***************************************************************************)
(* The style audit on every catalog of at most MaxStyles text styles and   *)
(* MaxStyles color styles, complete or not, and selected nodes that use a  *)
(* style of the catalog, a style that is not in it, or none.               *)
(***************************************************************************)
MaxStyles == 1

TextStyle(id, name, tag, font, color, fontSize) ==
    [id |-> id, name |-> name, tag |-> tag, font |-> font, color |-> color,
     fontSize |-> fontSize]

ColorStyle(id, name, light, dark) ==
    [id |-> id, name |-> name, light |-> light, dark |-> dark]

TextStyles ==
    {TextStyle(<<"s", "1">>, <<"H">>, <<"h", "1">>, <<"I">>, <<"c", "1">>, <<"9", "p", "x">>),
     TextStyle(<<"s", "2">>, <<>>, <<"p">>, <<>>, <<>>, ZERO_PX)}

ColorStyles ==
    {ColorStyle(<<"c", "1">>, <<"N">>, <<"#", "f">>, <<"#", "0">>),
     ColorStyle(<<"c", "2">>, <<>>, <<>>, <<"#", "0">>)}

StyledNodes ==
    {[PlainNode EXCEPT !.textStyle = t, !.color = c] :
        t \in {<<>>, <<"s", "1">>, <<"s", "9">>},
        c \in {<<>>, <<"c", "1">>, <<"c", "9">>}}

InitStyles ==
    \E nodes \in [1..MaxNodes -> StyledNodes],
       texts \in SeqsUpTo(TextStyles, MaxStyles),
       colors \in SeqsUpTo(ColorStyles, MaxStyles) :
        InitWith(Doc([k \in 1..MaxNodes |-> <<>>], nodes, texts, colors),
                 Ascending(1..MaxNodes))

NextStyles ==
    \/ ClickCheckStyles
    \/ GetTextStylesAnswers
    \/ GetColorStylesAnswers
    \/ HostRejects

SpecStyles == InitStyles /\ [][NextStyles]_vars

(***************************************************************************)
(* The component with all its handlers, on documents of two nodes: a       *)
(* generically named frame with a link, an unacceptable width and a style  *)
(* that is not in the catalog, and in it another generically named frame,  *)
(* a component instance with a control bag, or a Desktop frame.  The user  *)
(* may select none, either or both.                                        *)
(***************************************************************************)
GenericFrame ==
    [PlainNode EXCEPT !.name = <<"F", "r", "a", "m", "e">>, !.link = PATH_A,
                      !.width = PX, !.maxWidth = <<>>, !.textStyle = <<"s", "9">>]

AppNodes ==
    {[PlainNode EXCEPT !.name = <<"G", "r", "o", "u", "p">>, !.maxWidth = <<>>,
                       !.color = <<"c", "2">>],
     [PlainNode EXCEPT !.class = "ComponentInstanceNode", !.controls = ControlBag],
     [PlainNode EXCEPT !.name = DESKTOP, !.width = FIT_CONTENT]}

Init ==
    \E inner \in AppNodes :
        InitWith(Doc(ChildrenOf(NestedParents(2)),
                     [k \in 1..2 |-> IF k = 1 THEN GenericFrame ELSE inner],
                     <<TextStyle(<<"s", "1">>, <<"H">>, <<"h", "1">>, <<"I">>, <<"c", "1">>,
                                 <<"9", "p", "x">>)>>,
                     <<ColorStyle(<<"c", "2">>, <<>>, <<>>, <<"#", "0">>)>>),
                 <<1>>)

Next ==
    \/ ClickClear
    \/ ClickValidateLinks
    \/ ClickCheckStyles
    \/ ClickCheckNodeNames
    \/ ClickCheckWidths
    \/ GetAllLinksChildren
    \/ FetchResponds
    \/ FetchFails
    \/ GetTextStylesAnswers
    \/ GetColorStylesAnswers
    \/ ProcessNodeChildren
    \/ GetNodesWithTypeAnswers
    \/ HostRejects
    \/ SelectionChanges

Spec == Init /\ [][Next]_vars

(***************************************************************************)
(* The three checkers run again and again on a selection and a catalog     *)
(* that do not change: documents of MaxNodes nodes, each a frame with a    *)
(* link, an unacceptable width and a style that is not in the catalog, a   *)
(* Desktop frame, a component instance with a control bag, or a frame of   *)
(* fit-content width without maxWidth; the catalogs are empty or hold a    *)
(* faulty style each; the roots are selected, or every node is.  No link   *)
(* needs a probe, so handleValidateLinks never waits for fetch.            *)
(***************************************************************************)
RerunNodes ==
    {[PlainNode EXCEPT !.link = TEL_1, !.width = PX, !.maxWidth = <<>>,
                       !.color = <<"c", "9">>],
     [PlainNode EXCEPT !.name = DESKTOP, !.width = PX, !.maxWidth = <<>>,
                       !.textStyle = <<"s", "9">>],
     [PlainNode EXCEPT !.class = "ComponentInstanceNode", !.controls = ControlBag],
     [PlainNode EXCEPT !.width = FIT_CONTENT, !.maxWidth = <<>>]}

RerunCatalogs ==
    {[text |-> <<>>, color |-> <<>>],
     [text |-> <<TextStyle(<<"s", "2">>, <<>>, <<"p">>, <<>>, <<>>, ZERO_PX)>>,
      color |-> <<ColorStyle(<<"c", "2">>, <<>>, <<>>, <<"#", "0">>)>>]}

InitRerun ==
    \E par \in ParentMaps(MaxNodes), nodes \in [1..MaxNodes -> RerunNodes],
       cat \in RerunCatalogs :
        \E sel \in {RootsOf(par), Ascending(1..MaxNodes)} :
            InitWith(Doc(ChildrenOf(par), nodes, cat.text, cat.color), sel)

NextRerun ==
    \/ ClickValidateLinks
    \/ GetAllLinksChildren
    \/ ClickCheckStyles
    \/ GetTextStylesAnswers
    \/ GetColorStylesAnswers
    \/ ClickCheckWidths
    \/ GetNodesWithTypeAnswers
    \/ HostRejects

SpecRerun == InitRerun /\ [][NextRerun]_vars

(***************************************************************************)
(* The claims.                                                             *)
(***************************************************************************)
\* The rules of the classification, stated on positions of the link
HasPrefix(u, p) == Len(u) >= Len(p) /\ \A k \in 1..Len(p) : u[k] = p[k]
Has(u, c) == \E k \in 1..Len(u) : u[k] = c
After(u, n) == [k \in 1..(Len(u) - n) |-> u[k + n]]

\* optional '+', a digit, then only digits and spaces
PhoneShape(u) ==
    \E plus \in {0, 1} :
        /\ plus = 1 => (Len(u) >= 1 /\ u[1] = "+")
        /\ Len(u) >= plus + 1
        /\ u[plus + 1] \in Digits
        /\ \A k \in (plus + 2)..Len(u) : u[k] \in Digits \cup Spaces

\* only an optional '+' followed by digits
BareDigits(u) ==
    \E plus \in {0, 1} :
        /\ plus = 1 => (Len(u) >= 1 /\ u[1] = "+")
        /\ Len(u) >= plus + 1
        /\ \A k \in (plus + 1)..Len(u) : u[k] \in Digits

RuleOf(u) ==
    CASE HasPrefix(u, MAILTO) -> 1
      [] ~HasPrefix(u, MAILTO) /\ Has(u, "@") /\ Has(u, ".") -> 2
      [] OTHER ->
            CASE HasPrefix(u, TEL) -> 3
              [] ~HasPrefix(u, TEL) /\ BareDigits(u) -> 4
              [] OTHER -> IF Has(u, "+") /\ Has(u, ".") THEN 5 ELSE 6

\* What rules 1 to 5 answer: [valid, message]
RuleAnswer(u) ==
    CASE RuleOf(u) = 1 ->
            [valid |-> Has(After(u, 7), "@") /\ Has(After(u, 7), "."), message |-> NoMessage]
      [] RuleOf(u) = 2 -> [valid |-> FALSE, message |-> EmailMessage]
      [] RuleOf(u) = 3 -> [valid |-> PhoneShape(After(u, 4)), message |-> NoMessage]
      [] RuleOf(u) = 4 -> [valid |-> FALSE, message |-> PhoneMessage]
      [] OTHER -> [valid |-> FALSE, message |-> NoMessage]

\* C1: every call of validateLink answers by the first of the six rules that
\* matches its link; rules 1 to 5 answer at once with status 0 and without a
\* fetch, and only rule 6 hands the link to fetch.
C1_SixRules ==
    \A i \in DOMAIN validations :
        LET v == validations[i]
            u == v.url
        IN  IF RuleOf(u) = 6
            THEN v.probe.kind # "none" /\ u \in fetched
            ELSE /\ v.state = "fulfilled"
                 /\ v.probe.kind = "none"
                 /\ u \notin fetched
                 /\ v.value = Result(u, 0, RuleAnswer(u).valid, RuleAnswer(u).message)

\* A tel: link with '@' and '.' was rejected by rule 2, with the message and
\* without a fetch, and a rule 6 link was handed to fetch.
C1_Witness ==
    /\ validations # <<>>
    /\ HasPrefix(validations[1].url, TEL)
    /\ Has(validations[1].url, "@")
    /\ Has(validations[1].url, ".")
    /\ validations[1].value = Result(validations[1].url, 0, FALSE, EmailMessage)
    /\ fetched = {}

\* C2: a validateLink call that reached fetch never rejects: a response makes
\* it valid with the response's status, whatever that is; a transport failure
\* makes it status 0 and invalid, and the handler sees no rejection from it.
C2_ProbeNeverFails ==
    /\ unhandled # "fetch"
    /\ \A i \in DOMAIN validations :
        LET v == validations[i]
        IN  /\ v.state # "rejected"
            /\ v.probe.kind = "response" =>
                    /\ v.state = "fulfilled"
                    /\ v.value = Result(v.url, v.probe.status, TRUE, NoMessage)
            /\ v.probe.kind = "failure" =>
                    /\ v.state = "fulfilled"
                    /\ v.value = Result(v.url, 0, FALSE, NoMessage)

\* A fetch failed at transport level, and the run published its result.
C2_Witness ==
    /\ validations # <<>>
    /\ validations[1].probe.kind = "failure"
    /\ ~loading
    /\ results = <<Result(validations[1].url, 0, FALSE, NoMessage)>>

\* The proper ancestors of node n in document d
RECURSIVE Ancestors(_, _)
Ancestors(d, n) ==
    LET parents == {m \in NodesOf(d) : n \in Range(d.children[m])}
    IN  parents \cup UNION {Ancestors(d, m) : m \in parents}

InsideComponent(d, n) ==
    \E m \in Ancestors(d, n) : d.nodes[m].class = "ComponentInstanceNode"

\* The strings a node carries itself: its link attribute and its control fields
OwnStrings(node) ==
    {node.link} \cup {e.val : e \in {x \in Range(node.controls) : x.type = "string"}}

\* C3: getAllLinks never asks a component instance for its children and never
\* visits a node inside one; every link it collects is a string that a node
\* outside every component instance carries in its own link or control fields.
C3_ComponentInstanceOpaque ==
    /\ \A c \in hostCalls :
          c[1] = "getAllLinks" =>
              /\ doc.nodes[c[2]].class # "ComponentInstanceNode"
              /\ ~InsideComponent(doc, c[2])
    /\ \A l \in Range(links) \cup Range(acc) :
          \E n \in NodesOf(doc) :
              ~InsideComponent(doc, n) /\ l \in OwnStrings(doc.nodes[n])

\* The selected node is a component instance without a link whose child
\* carries one: the run published the control fields' links only.
C3_Witness ==
    /\ selection = <<1>>
    /\ doc.nodes[1].class = "ComponentInstanceNode"
    /\ doc.nodes[1].link = <<>>
    /\ 2 \in Range(doc.children[1])
    /\ doc.nodes[2].link = PATH_A
    /\ ~loading
    /\ links = <<TEL_1, TEL_1, MAILTO \o <<"a">>>>
    /\ Len(results) = 3

\* getAllLinks as the recursion of the source states it
RECURSIVE CollectFrom(_, _), CollectAll(_, _)
CollectAll(d, ns) ==
    IF ns = <<>> THEN <<>> ELSE CollectFrom(d, Head(ns)) \o CollectAll(d, Tail(ns))
CollectFrom(d, n) ==
    LET node == d.nodes[n]
        own == (IF node.link # <<>> THEN <<node.link>> ELSE <<>>)
                 \o ControlsLink(node.controls)
    IN  IF node.class = "ComponentInstanceNode"
        THEN own \o ControlsScan(node.controls)
        ELSE own \o CollectAll(d, d.children[n])

\* C10: while a validation is pending the handler waits with loading set;
\* once results are published every validation is fulfilled and results holds
\* one entry per collected link, in the order of the pre-order walk of the
\* selection, duplicates included.
C10_SingleBarrier ==
    /\ (\E i \in DOMAIN validations : validations[i].state = "pending") =>
            loading /\ pc = "fetch"
    /\ links # <<>> => links = CollectAll(doc, selection)
    /\ (~loading /\ results # <<>>) =>
            /\ Len(results) = Len(links)
            /\ Len(validations) = Len(links)
            /\ \A i \in DOMAIN links :
                  /\ validations[i].state = "fulfilled"
                  /\ results[i] = validations[i].value
                  /\ results[i].url = links[i]

\* The same link was collected twice, its two probes were answered
\* differently, and both results were published in collection order.
C10_Witness ==
    /\ ~loading
    /\ Len(results) >= 2
    /\ results[1].url = results[2].url
    /\ results[1].status = 404
    /\ results[2].status = 200
    /\ links[1] = links[2]

\* The frames a width audit of the selection meets, and those it audits
MetFrames == UNION {Range(FramesBelow(doc, selection[i])) : i \in DOMAIN selection}
AuditedFrames == {n \in MetFrames : doc.nodes[n].name # DESKTOP}
AcceptableWidth(n) == doc.nodes[n].width \in {FR, FIT_CONTENT}
DescriptorOf(n) == Descriptor(doc.nodes[n].name, IdOf(n))

Disjoint(a, b) == Range(a) \cap Range(b) = {}

\* C5 as stated: the three sets of the width report, as published and as
\* they grow during a run, are pairwise disjoint.
C5_PairwiseDisjoint ==
    \A report \in {widthErrors, errors} :
        /\ Disjoint(report.invalidWidths, report.noMaxWidth)
        /\ Disjoint(report.invalidWidths, report.inconsistencies)
        /\ Disjoint(report.noMaxWidth, report.inconsistencies)

\* C5 amended: invalidWidths and inconsistencies are disjoint, and each holds
\* every descriptor once; noMaxWidth is independent of both: it holds every
\* audited frame without a max-width, whatever its width.
C5_InvalidAndInconsistentDisjoint ==
    /\ \A report \in {widthErrors, errors} :
          /\ Disjoint(report.invalidWidths, report.inconsistencies)
          /\ \A set \in {report.invalidWidths, report.noMaxWidth, report.inconsistencies} :
                Cardinality(Range(set)) = Len(set)
    /\ \A n \in AuditedFrames :
          /\ DescriptorOf(n) \in Range(widthErrors.invalidWidths) => ~AcceptableWidth(n)
          /\ DescriptorOf(n) \in Range(widthErrors.inconsistencies) => AcceptableWidth(n)
          /\ DescriptorOf(n) \in Range(widthErrors.noMaxWidth) => doc.nodes[n].maxWidth = <<>>
    /\ (~loading /\ widthErrors # NoWidthErrors) =>
          \A n \in AuditedFrames :
              doc.nodes[n].maxWidth = <<>> => DescriptorOf(n) \in Range(widthErrors.noMaxWidth)

\* Two width modes coexist among frames with a max-width, and a frame with
\* an unacceptable width and no max-width is reported in both other sets.
C5_Witness ==
    /\ ~loading
    /\ Len(widthErrors.inconsistencies) = 3
    /\ widthErrors.invalidWidths = <<DescriptorOf(4)>>
    /\ widthErrors.noMaxWidth = <<DescriptorOf(4)>>

\* C6: a frame named Desktop is in none of the three sets, in no bucket of
\* the width-mode map, and no setAttributes request was made for it.
C6_DesktopExempt ==
    \A n \in NodesOf(doc) :
        doc.nodes[n].name = DESKTOP =>
            /\ \A report \in {widthErrors, errors} :
                  DescriptorOf(n) \notin
                      Range(report.invalidWidths) \cup Range(report.noMaxWidth)
                          \cup Range(report.inconsistencies)
            /\ \A i \in DOMAIN widthTypes : n \notin Range(widthTypes[i].nodes)
            /\ bg[n] = "none"

\* A finished run met a Desktop frame with an unacceptable width and no
\* max-width, and reported the other frames.
C6_Witness ==
    /\ ~loading
    /\ doc.nodes[3].name = DESKTOP
    /\ doc.nodes[3].width = PX
    /\ doc.nodes[3].maxWidth = <<>>
    /\ 3 \in MetFrames
    /\ widthErrors.invalidWidths = <<DescriptorOf(2)>>
    /\ widthErrors.noMaxWidth = <<DescriptorOf(2)>>

\* The report of a width run that just ended, by the modes of the audited
\* frames with an acceptable width
ModesInUse == {doc.nodes[n].width : n \in {m \in AuditedFrames : AcceptableWidth(m)}}

InconsistenciesAsClaimed ==
    LET listed == widthErrors.inconsistencies
    IN  IF Cardinality(ModesInUse) <= 1
        THEN listed = <<>>
        ELSE /\ listed # <<>>
             /\ listed[1] = Summary
             /\ Range(listed) =
                    {Summary} \cup {DescriptorOf(n) : n \in {m \in AuditedFrames : AcceptableWidth(m)}}
             /\ Cardinality(Range(listed)) = Len(listed)

\* C7: when a run of checkWidths ends, inconsistencies is empty if the audited
\* frames share one width mode, and otherwise is the summary entry followed
\* by the descriptor of every audited frame of every mode, each once.
C7_Inconsistencies ==
    [][(pc = "getNodesWithType" /\ pc' = "idle" /\ unhandled' = unhandled)
            => InconsistenciesAsClaimed']_vars

\* Both selected roots were audited, so the frames in frame 2 were met twice;
\* two of the three frames use 1fr and one fit-content, and all are listed once.
C7_Witness ==
    /\ ~loading
    /\ selection = <<1, 2>>
    /\ doc.nodes[2].width = FR
    /\ doc.nodes[3].width = FR
    /\ doc.nodes[4].width = FIT_CONTENT
    /\ widthErrors.inconsistencies =
            <<Summary, DescriptorOf(2), DescriptorOf(3), DescriptorOf(4)>>

\* Whether message holds the text id somewhere
Mentions(message, id) ==
    \E k \in 1..(Len(message) - Len(id) + 1) : SubSeq(message, k, k + Len(id) - 1) = id

DanglingText(n) ==
    /\ doc.nodes[n].textStyle # <<>>
    /\ \A k \in DOMAIN doc.textStyles : doc.textStyles[k].id # doc.nodes[n].textStyle

DanglingColor(n) ==
    /\ doc.nodes[n].color # <<>>
    /\ \A k \in DOMAIN doc.colorStyles : doc.colorStyles[k].id # doc.nodes[n].color

DanglingReported ==
    \A i \in DOMAIN selection :
        (DanglingText(selection[i]) \/ DanglingColor(selection[i])) =>
            \E k \in DOMAIN styleErrors : Mentions(styleErrors[k], IdOf(selection[i]))

\* C4 as stated: when a run of checkStyles ends, the errors it published hold
\* a message for every selected node whose text style or color style is not
\* in the catalog.
C4_DanglingReferencesReported ==
    [][(pc = "getColorStyles" /\ pc' = "idle" /\ unhandled' = unhandled)
            => DanglingReported']_vars

\* C8: at most one handler invocation is in flight, and while one is, loading
\* is set and no button, Clear Results included, takes a click.
C8_OneHandlerAtATime ==
    /\ inflight \in {0, 1}
    /\ (pc # "idle") <=> (inflight = 1)
    /\ inflight = 1 =>
          /\ loading
          /\ ~ENABLED (\/ ClickClear
                       \/ ClickValidateLinks
                       \/ ClickCheckStyles
                       \/ ClickCheckNodeNames
                       \/ ClickCheckWidths)

\* After a node-name run and a width run that ended, a link run waits for
\* its fetch while the user changes the selection.
C8_Witness ==
    /\ pc = "fetch"
    /\ inflight = 1
    /\ namingErrors # <<>>
    /\ widthErrors # NoWidthErrors
    /\ selection = <<>>

\* C9 as stated: once a host call of a run has failed and no handler code is
\* left to run, loading is false again and the buttons take clicks.
C9_ReenabledAfterHostFailure ==
    (unhandled # "none" /\ inflight = 0) => (~loading /\ ENABLED ClickCheckNodeNames)

\* The step in which a checker hands over its result: the walk of
\* getLinksFromSelection ends and setLinks runs, checkStyles returns, or
\* checkWidths returns.
LinksRunEnds == (ClickValidateLinks \/ GetAllLinksChildren) /\ pc' # "getAllLinks"
StylesRunEnds == GetColorStylesAnswers
WidthsRunEnds == (ClickCheckWidths \/ GetNodesWithTypeAnswers) /\ pc' # "getNodesWithType"

\* Between runs the handlers' locals are gone, and a frame is painted only
\* if the width audit that painted it reported something.
NothingCarried ==
    /\ pc = "idle" =>
          stack = <<>> /\ acc = <<>> /\ errors = NoWidthErrors /\ widthTypes = <<>>
    /\ (pc # "getNodesWithType" /\ unhandled = "none" /\ widthErrors = NoWidthErrors) =>
          \A n \in NodesOf(doc) : bg[n] = "none"

\* C11: with the selection and the catalogs unchanged, a checker that ends a
\* run while the result of an earlier run is on display (links, styleErrors,
\* widthErrors) publishes that very result again, element for element and in
\* the same order, whatever the earlier runs painted; a run that reported
\* nothing leaves the program in the state it started from, and no handler
\* local outlives its run.
C11_Idempotent ==
    /\ []NothingCarried
    /\ [][/\ LinksRunEnds => (links = <<>> \/ links' = links)
          /\ StylesRunEnds => (styleErrors = <<>> \/ styleErrors' = styleErrors)
          /\ WidthsRunEnds => (widthErrors = NoWidthErrors \/ widthErrors' = widthErrors)]_vars

\* A later width audit is under way on frames the first one painted: it has
\* asked the first selected node for its frames and found again what is on
\* display; the links and the style errors of earlier runs are on display too.
C11_Witness ==
    /\ selection = <<1, 2>>
    /\ pc = "getNodesWithType"
    /\ stack = <<2>>
    /\ widthErrors.invalidWidths # <<>>
    /\ errors.invalidWidths = widthErrors.invalidWidths
    /\ errors.noMaxWidth = widthErrors.noMaxWidth
    /\ bg[2] = "#FFE4E4"
    /\ links # <<>>
    /\ styleErrors # <<>>

\* How often the value v occurs in the sequence seq
Occurrences(seq, v) == Cardinality({i \in DOMAIN seq : seq[i] = v})

\* The values of the 'link' field of a control bag that the scan of the
\* bag would take for links
LinkFieldValues(controls) ==
    {controls[k].val : k \in {j \in DOMAIN controls :
        /\ controls[j].key = "link"
        /\ controls[j].type = "string"
        /\ \/ HasPrefix(controls[j].val, <<"/">>)
           \/ HasPrefix(controls[j].val, TEL)
           \/ HasPrefix(controls[j].val, MAILTO)}}

\* Whether the 'link' field is the only thing of the node that holds v
OnlySource(node, v) ==
    /\ node.link # v
    /\ \A k \in DOMAIN node.controls :
          (node.controls[k].key # "link" /\ node.controls[k].type = "string") =>
              node.controls[k].val # v

\* C12 as stated: when the selection is one component instance whose control
\* bag has a 'link' field with a value that starts with "/", "tel:" or
\* "mailto:", and nothing else of the node holds that value, the links
\* published for it hold the value exactly once.
C12_ControlLinkEmittedOnce ==
    \A n \in NodesOf(doc) :
        (/\ selection = <<n>>
         /\ doc.nodes[n].class = "ComponentInstanceNode"
         /\ pc = "idle"
         /\ links # <<>>) =>
            \A v \in LinkFieldValues(doc.nodes[n].controls) :
                OnlySource(doc.nodes[n], v) => Occurrences(links, v) = 1

====
